---- MODULE Spec2Model ----
(***************************************************************************)
(* go2json: conversion of a go/ast syntax tree into a generic ASTNode tree *)
(* (marshalAST), and the file / folder driver around it (processFile,      *)
(* processFolder, main).                                                   *)
(*                                                                         *)
(* marshalAST is recursive; it is modelled as a machine over an explicit   *)
(* call stack whose frames are calls of marshalAST and of ast.Walk (the    *)
(* traversal ast.Inspect runs).  One action is one step of the top frame.  *)
(***************************************************************************)
EXTENDS Integers, Sequences, FiniteSets, TLC

\* Number of node identities of a syntax graph handed directly to marshalAST.
MaxNodes == 2

\* Number of entries of the directory given to processFolder.
MaxUnits == 2

\* Frames the call stack can hold before the runtime ends the process.
MaxStack == 16

VARIABLES
  arg,      \* what os.Args[1] names: "noarg", "missing", "file", "dir", or "call"
  entries,  \* the files filepath.Walk finds, in walk order
  pc,       \* position of main / processFolder / processFile
  cur,      \* index of the entry being processed
  err,      \* error value processFile is returning ("nil" for none)
  rets,     \* what each run of the walk callback's body produced, in order
  exit,     \* process exit code, -1 while running
  disk,     \* the output file of each entry
  tree,     \* the syntax graph being converted: node index -> node
  visited,  \* the visited map of the current marshalAST run
  stack,    \* call stack of marshalAST / ast.Walk frames
  run,      \* "idle", "active", "returned", "panic", "overflow"
  result,   \* what the root call of marshalAST returned: <<>> (nil) or <<node>>
  made,     \* identities for which an ASTNode was allocated, in order
  given     \* identities for which a call returned a node, in order

vars == <<arg, entries, pc, cur, err, rets, exit, disk, tree, visited, stack,
          run, result, made, given>>

drv == <<arg, entries, pc, cur, err, rets, exit, disk>>

----------------------------------------------------------------------------
(* Syntax nodes.  A node has a kind (its dynamic Go type), a text (Ident   *)
(* Name, BasicLit Value, Comment Text) and fields holding node indices; a  *)
(* nil field is absent, a list field holds its elements in order.          *)

NoFields == [f \in {} |-> <<>>]

Nd(kind, text, fld) == [kind |-> kind, text |-> text, fld |-> fld]

FieldOf(t, n, f) == IF f \in DOMAIN t[n].fld THEN t[n].fld[f] ELSE <<>>

RECURSIVE Flatten(_)
Flatten(ss) == IF ss = <<>> THEN <<>> ELSE Head(ss) \o Flatten(Tail(ss))

\* The fields each case of the switch recurses into, in the order it does.
ExtractFields(kind) ==
  CASE kind \in {"Ident", "BasicLit", "File"} -> <<>>
    [] kind = "Ellipsis"       -> <<"Elt">>
    [] kind = "GenDecl"        -> <<"Specs">>
    [] kind = "FuncDecl"       -> <<"Recv", "Type", "Body">>
    [] kind = "TypeSpec"       -> <<"Type">>
    [] kind = "ValueSpec"      -> <<"Names", "Type", "Values">>
    [] kind = "AssignStmt"     -> <<"Lhs", "Rhs">>
    [] kind = "ReturnStmt"     -> <<"Results">>
    [] kind = "IfStmt"         -> <<"Init", "Cond", "Body", "Else">>
    [] kind = "ForStmt"        -> <<"Init", "Cond", "Post", "Body">>
    [] kind = "RangeStmt"      -> <<"Key", "Value", "X", "Body">>
    [] kind = "BlockStmt"      -> <<"List">>
    [] kind = "ExprStmt"       -> <<"X">>
    [] kind = "CallExpr"       -> <<"Fun", "Args">>
    [] kind = "SelectorExpr"   -> <<"X", "Sel">>
    [] kind = "IndexListExpr"  -> <<"X", "Indices">>
    [] kind = "IndexExpr"      -> <<"X", "Index">>
    [] kind = "SliceExpr"      -> <<"X", "Low", "High", "Max">>
    [] kind = "StructType"     -> <<"Fields">>
    [] kind = "FuncType"       -> <<"Params", "Results">>
    [] kind = "InterfaceType"  -> <<"Methods">>
    [] kind = "ArrayType"      -> <<"Elt">>
    [] kind = "SelectStmt"     -> <<"Body">>
    [] kind = "CompositeLit"   -> <<"Type", "Elts">>
    [] kind = "ParenExpr"      -> <<"X">>
    [] kind = "TypeAssertExpr" -> <<"X", "Type">>
    [] kind \in {"BadDecl", "BadExpr", "BadStmt", "EmptyStmt"} -> <<>>
    [] kind = "FuncLit"        -> <<"Type", "Body">>
    [] kind = "StarExpr"       -> <<"X">>
    [] kind = "UnaryExpr"      -> <<"X">>
    [] kind = "BinaryExpr"     -> <<"X", "Y">>
    [] kind = "KeyValueExpr"   -> <<"Key", "Value">>
    [] kind = "DeclStmt"       -> <<"Decl">>
    [] kind = "LabeledStmt"    -> <<"Label", "Stmt">>
    [] kind = "SendStmt"       -> <<"Chan", "Value">>
    [] kind = "IncDecStmt"     -> <<"X">>
    [] kind = "GoStmt"         -> <<"Call">>
    [] kind = "DeferStmt"      -> <<"Call">>
    [] kind = "CaseClause"     -> <<"List", "Body">>
    [] kind = "CommentGroup"   -> <<"List">>
    [] kind = "Comment"        -> <<>>
    [] kind = "TypeSwitchStmt" -> <<"Init", "Assign", "Body">>
    [] kind = "CommClause"     -> <<"Comm", "Body">>
    [] kind = "ImportSpec"     -> <<"Name", "Path">>
    [] kind = "Field"          -> <<"Names", "Type">>
    [] kind = "FieldList"      -> <<"List">>
    [] kind = "MapType"        -> <<"Key", "Value">>
    [] kind = "ChanType"       -> <<"Value">>
    [] kind = "BranchStmt"     -> <<"Label">>
    [] kind = "SwitchStmt"     -> <<"Init", "Tag", "Body">>
    [] OTHER                   -> <<>>

\* The kinds the switch has a case for; every other kind reaches default.
SupportedKinds ==
  {"Ident", "BasicLit", "File", "Ellipsis", "GenDecl", "FuncDecl", "TypeSpec",
   "ValueSpec", "AssignStmt", "ReturnStmt", "IfStmt", "ForStmt", "RangeStmt",
   "BlockStmt", "ExprStmt", "CallExpr", "SelectorExpr", "IndexListExpr",
   "IndexExpr", "SliceExpr", "StructType", "FuncType", "InterfaceType",
   "ArrayType", "SelectStmt", "CompositeLit", "ParenExpr", "TypeAssertExpr",
   "BadDecl", "BadExpr", "FuncLit", "StarExpr", "UnaryExpr", "BinaryExpr",
   "KeyValueExpr", "BadStmt", "DeclStmt", "EmptyStmt", "LabeledStmt",
   "SendStmt", "IncDecStmt", "GoStmt", "DeferStmt", "CaseClause",
   "CommentGroup", "Comment", "TypeSwitchStmt", "CommClause", "ImportSpec",
   "Field", "FieldList", "MapType", "ChanType", "BranchStmt", "SwitchStmt"}

\* The fields ast.Walk descends into for each kind, in its order; this is the
\* traversal ast.Inspect performs from the node marshalAST passes to it.
WalkFields(kind) ==
  CASE kind = "Field"      -> <<"Doc", "Names", "Type", "Tag", "Comment">>
    [] kind = "ArrayType"  -> <<"Len", "Elt">>
    [] kind = "FuncType"   -> <<"TypeParams", "Params", "Results">>
    [] kind = "ImportSpec" -> <<"Doc", "Name", "Path", "Comment">>
    [] kind = "ValueSpec"  -> <<"Doc", "Names", "Type", "Values", "Comment">>
    [] kind = "TypeSpec"   -> <<"Doc", "Name", "TypeParams", "Type", "Comment">>
    [] kind = "GenDecl"    -> <<"Doc", "Specs">>
    [] kind = "FuncDecl"   -> <<"Doc", "Recv", "Name", "Type", "Body">>
    [] kind = "File"       -> <<"Doc", "Name", "Decls">>
    [] kind = "Package"    -> <<"Files">>
    [] OTHER               -> ExtractFields(kind)

ChildrenBy(t, n, fields) ==
  Flatten([i \in 1..Len(fields) |-> FieldOf(t, n, fields[i])])

ExtractChildren(t, n) == ChildrenBy(t, n, ExtractFields(t[n].kind))

WalkChildren(t, n) == ChildrenBy(t, n, WalkFields(t[n].kind))

----------------------------------------------------------------------------
(* Output nodes (ASTNode) and their JSON rendering.                        *)

\* Mutant of TypeOf: the node formatted with its address beside its type.
TypeWithAddr(ptr, kind) == <<"*ast.", kind, ToString(ptr)>>

\* fmt.Sprintf("%T", node): the package-qualified pointer type of the node.
TypeOf(ptr, kind) == <<"*ast.", kind>>

\* &ASTNode{Type: ...}: every other field at its zero value.  Value is an
\* interface: <<>> is nil, <<s>> holds the string s.
NewASTNode(ptr, kind) ==
  [Name |-> "", Type |-> TypeOf(ptr, kind), Children |-> <<>>, Value |-> <<>>,
   Comments |-> <<>>]

\* The fields the matched case sets before it recurses.
Dispatch(t, n, node) ==
  LET k == t[n].kind IN
  CASE k \in {"Ident", "BasicLit"} -> [node EXCEPT !.Value = <<t[n].text>>]
    [] k = "File" -> [node EXCEPT !.Value = <<t[FieldOf(t, n, "Name")[1]].text>>]
    [] k \in {"FuncDecl", "TypeSpec"} ->
         [node EXCEPT !.Name = t[FieldOf(t, n, "Name")[1]].text]
    [] k = "Comment" -> [node EXCEPT !.Comments = Append(@, t[n].text)]
    [] OTHER -> node

\* astNode.Children = append(astNode.Children, child)
AppendChild(node, child) == [node EXCEPT !.Children = Append(@, child)]

RECURSIVE TreeSize(_)
TreeSize(node) ==
  1 + LET S[i \in 0..Len(node.Children)] ==
            IF i = 0 THEN 0 ELSE S[i - 1] + TreeSize(node.Children[i])
      IN S[Len(node.Children)]

\* json encoding of an ASTNode with the struct's tags: fields in declaration
\* order, the omitempty ones left out when empty; the document is the
\* sequence of tokens written.
RECURSIVE EncodeNode(_)
EncodeNode(node) ==
  <<"{">>
  \o (IF node.Name = "" THEN <<>> ELSE <<"name", node.Name>>)
  \o <<"type">> \o node.Type
  \o (IF node.Children = <<>> THEN <<>>
      ELSE <<"children", "[">>
           \o Flatten([i \in 1..Len(node.Children) |-> EncodeNode(node.Children[i])])
           \o <<"]">>)
  \o (IF node.Value = <<>> THEN <<>> ELSE <<"value">> \o node.Value)
  \o (IF node.Comments = <<>> THEN <<>>
      ELSE <<"comments", "[">> \o node.Comments \o <<"]">>)
  \o <<"}">>

\* jsonEncoder.Encode(astNode); a nil pointer encodes as null.
Encode(res) == IF res = <<>> THEN <<"null">> ELSE EncodeNode(res[1])

----------------------------------------------------------------------------
(* Source files.  A source is the syntax tree its text denotes, comments   *)
(* included; ParseFile keeps the comments only in ParseComments mode.      *)

\* package main
\* // imports
\* import ( f "fmt"; "os"; "io" )
SrcImports ==
  [parses |-> TRUE,
   tree |-> <<
     Nd("File", "", [Name |-> <<2>>, Decls |-> <<3>>]),
     Nd("Ident", "main", NoFields),
     Nd("GenDecl", "", [Doc |-> <<10>>, Specs |-> <<4, 5, 6>>]),
     Nd("ImportSpec", "", [Name |-> <<12>>, Path |-> <<7>>]),
     Nd("ImportSpec", "", [Path |-> <<8>>]),
     Nd("ImportSpec", "", [Path |-> <<9>>]),
     Nd("BasicLit", "fmt", NoFields),
     Nd("BasicLit", "os", NoFields),
     Nd("BasicLit", "io", NoFields),
     Nd("CommentGroup", "", [List |-> <<11>>]),
     Nd("Comment", "// imports", NoFields),
     Nd("Ident", "f", NoFields) >>]

\* package main
\* func (s T) Get() int { return 1 }
SrcFunc ==
  [parses |-> TRUE,
   tree |-> <<
     Nd("File", "", [Name |-> <<2>>, Decls |-> <<3>>]),
     Nd("Ident", "main", NoFields),
     Nd("FuncDecl", "", [Recv |-> <<4>>, Name |-> <<8>>, Type |-> <<9>>,
                         Body |-> <<14>>]),
     Nd("FieldList", "", [List |-> <<5>>]),
     Nd("Field", "", [Names |-> <<6>>, Type |-> <<7>>]),
     Nd("Ident", "s", NoFields),
     Nd("Ident", "T", NoFields),
     Nd("Ident", "Get", NoFields),
     Nd("FuncType", "", [Params |-> <<10>>, Results |-> <<11>>]),
     Nd("FieldList", "", NoFields),
     Nd("FieldList", "", [List |-> <<12>>]),
     Nd("Field", "", [Type |-> <<13>>]),
     Nd("Ident", "int", NoFields),
     Nd("BlockStmt", "", [List |-> <<15>>]),
     Nd("ReturnStmt", "", [Results |-> <<16>>]),
     Nd("BasicLit", "1", NoFields) >>]

\* A file with a syntax error: the parser returns an error, together with
\* the partial tree it built.
\* package main
\* func (
SrcBad ==
  [parses |-> FALSE,
   tree |-> <<
     Nd("File", "", [Name |-> <<2>>, Decls |-> <<3>>]),
     Nd("Ident", "main", NoFields),
     Nd("BadDecl", "", NoFields) >>]

\* A file holding a declaration of a kind the switch has no case for.
SrcOther ==
  [parses |-> TRUE,
   tree |-> <<
     Nd("File", "", [Name |-> <<2>>, Decls |-> <<3>>]),
     Nd("Ident", "main", NoFields),
     Nd("Other", "", NoFields) >>]

\* Mutant of ParserMode: comments are parsed too.
ParseCommentsMode == {"ParseComments", "AllErrors"}

\* parser.AllErrors: the mode processFile parses with (no ParseComments).
ParserMode == {"AllErrors"}

CommentFields == {"Doc", "Comment"}

\* parser.ParseFile(fset, path, nil, mode): the file's tree; comments are
\* attached to nodes only when the mode includes ParseComments.
ParseFile(src) ==
  IF "ParseComments" \in ParserMode THEN src.tree
  ELSE [n \in DOMAIN src.tree |->
          [src.tree[n] EXCEPT !.fld =
             [f \in (DOMAIN src.tree[n].fld) \ CommentFields |-> src.tree[n].fld[f]]]]

----------------------------------------------------------------------------
(* The guard and the call stack.                                           *)

\* The identity of node n of the tree parsed for entry u: ast.Node values are
\* pointers, and every parse allocates its nodes anew.
Ptr(u, n) == <<u, n>>

\* Mutant of IsVisited: the guard is never consulted.
NeverVisited(v, p) == FALSE

\* visited[node]
IsVisited(v, p) == p \in v

\* Mutant of Claim: the identity is not recorded.
ClaimNothing(v, p) == v

\* visited[node] = true
Claim(v, p) == v \cup {p}

\* Mutant of NewVisited: one map serves every call of processFile.
KeepVisited(old) == old

\* make(map[ast.Node]bool)
NewVisited(old) == {}

NoNode == [Name |-> "", Type |-> <<>>, Children |-> <<>>, Value |-> <<>>,
           Comments |-> <<>>]

\* A call of marshalAST(node, visited) that has not yet run its first line.
CallFrame(n) ==
  [f |-> "marshalAST", node |-> n, phase |-> "entry", k |-> 0, astNode |-> NoNode]

\* A call of ast.Walk(v, node) that has not yet called v.Visit(node).
WalkFrame(n) ==
  [f |-> "Walk", node |-> n, phase |-> "walk", k |-> 0, astNode |-> NoNode]

Top == stack[Len(stack)]

Pop(s) == SubSeq(s, 1, Len(s) - 1)

SetTop(s, fr) == [s EXCEPT ![Len(s)] = fr]

\* The frame that receives the value a returning marshalAST call yields: its
\* direct caller in the switch, or the marshalAST call whose ast.Inspect
\* closure made the call (the closure appends to that call's astNode).
Receiver(s) ==
  LET below == {i \in 1..Len(s) - 1 : s[i].f = "marshalAST"}
  IN IF below = {} THEN 0 ELSE CHOOSE i \in below : \A j \in below : j <= i

Running == run = "active" /\ stack # <<>>

HasRoom == Len(stack) < MaxStack

----------------------------------------------------------------------------
(* marshalAST                                                              *)

\* if visited[node] { return nil }
Revisit ==
  /\ Running /\ Top.f = "marshalAST" /\ Top.phase = "entry"
  /\ IsVisited(visited, Ptr(cur, Top.node))
  /\ stack' = Pop(stack)
  /\ IF Len(stack) = 1
       THEN run' = "returned" /\ result' = <<>>
       ELSE UNCHANGED <<run, result>>
  /\ UNCHANGED <<drv, tree, visited, made, given>>

\* visited[node] = true; astNode := &ASTNode{...}; the matched case sets the
\* node's own fields.
Enter ==
  /\ Running /\ Top.f = "marshalAST" /\ Top.phase = "entry"
  /\ ~IsVisited(visited, Ptr(cur, Top.node))
  /\ tree[Top.node].kind \in SupportedKinds
  /\ visited' = Claim(visited, Ptr(cur, Top.node))
  /\ made' = Append(made, Ptr(cur, Top.node))
  /\ stack' = SetTop(stack,
       [Top EXCEPT !.phase = "switch", !.k = 1,
                   !.astNode = Dispatch(tree, Top.node,
                       NewASTNode(Ptr(cur, Top.node), tree[Top.node].kind))])
  /\ UNCHANGED <<drv, tree, run, result, given>>

\* default: panic("unsupported AST node type ...")
Unsupported ==
  /\ Running /\ Top.f = "marshalAST" /\ Top.phase = "entry"
  /\ ~IsVisited(visited, Ptr(cur, Top.node))
  /\ tree[Top.node].kind \notin SupportedKinds
  /\ visited' = Claim(visited, Ptr(cur, Top.node))
  /\ made' = Append(made, Ptr(cur, Top.node))
  /\ run' = "panic"
  /\ UNCHANGED <<drv, tree, stack, result, given>>

\* The matched case calls marshalAST on its next field.
Extract ==
  /\ Running /\ Top.f = "marshalAST" /\ Top.phase = "switch"
  /\ Top.k <= Len(ExtractChildren(tree, Top.node))
  /\ HasRoom
  /\ stack' = Append(SetTop(stack, [Top EXCEPT !.k = @ + 1]),
                     CallFrame(ExtractChildren(tree, Top.node)[Top.k]))
  /\ UNCHANGED <<drv, tree, visited, run, result, made, given>>

\* The switch is done: ast.Inspect(node, func...) starts walking from node.
Inspect ==
  /\ Running /\ Top.f = "marshalAST" /\ Top.phase = "switch"
  /\ Top.k > Len(ExtractChildren(tree, Top.node))
  /\ HasRoom
  /\ stack' = Append(SetTop(stack, [Top EXCEPT !.phase = "inspect"]),
                     WalkFrame(Top.node))
  /\ UNCHANGED <<drv, tree, visited, run, result, made, given>>

\* ast.Walk calls v.Visit(node): the closure calls marshalAST(n, visited) and
\* returns true, so the walk goes on below n whatever the call returned.
WalkVisit ==
  /\ Running /\ Top.f = "Walk" /\ Top.k = 0
  /\ HasRoom
  /\ stack' = Append(SetTop(stack, [Top EXCEPT !.k = 1]), CallFrame(Top.node))
  /\ UNCHANGED <<drv, tree, visited, run, result, made, given>>

\* ast.Walk walks the node's next child.
WalkChild ==
  /\ Running /\ Top.f = "Walk" /\ Top.k >= 1
  /\ Top.k <= Len(WalkChildren(tree, Top.node))
  /\ HasRoom
  /\ stack' = Append(SetTop(stack, [Top EXCEPT !.k = @ + 1]),
                     WalkFrame(WalkChildren(tree, Top.node)[Top.k]))
  /\ UNCHANGED <<drv, tree, visited, run, result, made, given>>

\* ast.Walk has walked every child: v.Visit(nil), which the closure ignores.
WalkEnd ==
  /\ Running /\ Top.f = "Walk" /\ Top.k >= 1
  /\ Top.k > Len(WalkChildren(tree, Top.node))
  /\ stack' = Pop(stack)
  /\ UNCHANGED <<drv, tree, visited, run, result, made, given>>

\* return astNode: the caller appends the node to its Children.
Return ==
  /\ Running /\ Top.f = "marshalAST" /\ Top.phase = "inspect"
  /\ given' = Append(given, Ptr(cur, Top.node))
  /\ LET r == Receiver(stack) IN
       IF r = 0
         THEN /\ stack' = Pop(stack)
              /\ run' = "returned"
              /\ result' = <<Top.astNode>>
         ELSE /\ stack' = [Pop(stack) EXCEPT
                             ![r].astNode = AppendChild(@, Top.astNode)]
              /\ UNCHANGED <<run, result>>
  /\ UNCHANGED <<drv, tree, visited, made>>

\* A further call does not fit the stack: the runtime ends the process with
\* a stack overflow.
StackOverflow ==
  /\ Running /\ ~HasRoom
  /\ IF Top.f = "marshalAST" THEN Top.phase = "switch"
     ELSE Top.k <= Len(WalkChildren(tree, Top.node))
  /\ run' = "overflow"
  /\ UNCHANGED <<drv, tree, visited, stack, result, made, given>>

MarshalStep ==
  \/ Revisit
  \/ Enter
  \/ Unsupported
  \/ Extract
  \/ Inspect
  \/ WalkVisit
  \/ WalkChild
  \/ WalkEnd
  \/ Return

----------------------------------------------------------------------------
(* main, processFolder, processFile                                        *)

File(src, fault, had) == [kind |-> "go", src |-> src, fault |-> fault, had |-> had]

\* The directory entries the runs draw from: sources that convert, one whose
\* output file exists already, one that does not parse, one with a node kind
\* the switch lacks, files whose output cannot be created or written, an
\* entry the callback skips (a directory, a file without the .go suffix) and
\* a path the walk cannot read.
Catalogue ==
  { File(SrcImports, "none", "absent"),
    File(SrcFunc, "none", "old"),
    File(SrcBad, "none", "old"),
    File(SrcOther, "none", "absent"),
    File(SrcImports, "create", "absent"),
    File(SrcImports, "write", "absent"),
    [kind |-> "other", src |-> SrcBad, fault |-> "none", had |-> "absent"],
    [kind |-> "denied", src |-> SrcBad, fault |-> "none", had |-> "absent"] }

Cell(st, doc) == [st |-> st, doc |-> doc]

Units == 1..Len(entries)

\* Mutant of CallbackResult: the callback drops processFile's error.
SwallowError(e) == "nil"

\* What the walk callback returns to filepath.Walk for processFile's result.
CallbackResult(e) == e

\* main with no argument, or with a path os.Stat fails on: exit code 1.
MainBadArgs ==
  /\ pc = "main" /\ arg \in {"noarg", "missing"}
  /\ pc' = "exit" /\ exit' = 1
  /\ UNCHANGED <<arg, entries, cur, err, rets, disk, tree, visited, stack, run,
                 result, made, given>>

\* main: info.IsDir() chooses processFolder or processFile.
MainDispatch ==
  /\ pc = "main" /\ arg \in {"file", "dir"}
  /\ IF arg = "dir" THEN pc' = "walk" /\ cur' = 0
                    ELSE pc' = "parse" /\ cur' = 1
  /\ UNCHANGED <<arg, entries, err, rets, exit, disk, tree, visited, stack, run,
                 result, made, given>>

\* filepath.Walk calls the callback for the next entry; the callback returns
\* the walk's own error, calls processFile for a .go file, or returns nil.
WalkFn ==
  /\ pc = "walk" /\ cur < Len(entries)
  /\ cur' = cur + 1
  /\ LET e == entries[cur + 1] IN
       CASE e.kind = "denied" -> /\ pc' = "fileret" /\ err' = "walk"
         [] e.kind = "go"     -> /\ pc' = "parse" /\ UNCHANGED err
         [] OTHER             -> /\ pc' = "fileret" /\ err' = "nil"
  /\ UNCHANGED <<arg, entries, rets, exit, disk, tree, visited, stack, run,
                 result, made, given>>

\* Mutant of ParseErr: the parser's error is dropped.
ParseErrIgnored(src) == "nil"

\* The err parser.ParseFile returns beside the tree.
ParseErr(src) == IF src.parses THEN "nil" ELSE "parse"

\* processFile: parser.ParseFile, returning its error.
Parse ==
  /\ pc = "parse"
  /\ IF ParseErr(entries[cur].src) = "nil"
       THEN /\ tree' = ParseFile(entries[cur].src)
            /\ pc' = "create" /\ UNCHANGED err
       ELSE /\ pc' = "fileret" /\ err' = "parse" /\ UNCHANGED tree
  /\ UNCHANGED <<arg, entries, cur, rets, exit, disk, visited, stack, run,
                 result, made, given>>

\* processFile: os.Create(newFilePath) makes the file or truncates it.
Create ==
  /\ pc = "create"
  /\ IF entries[cur].fault = "create"
       THEN /\ pc' = "fileret" /\ err' = "create" /\ UNCHANGED disk
       ELSE /\ pc' = "convert" /\ UNCHANGED err
            /\ disk' = [disk EXCEPT ![cur] = Cell("empty", <<>>)]
  /\ UNCHANGED <<arg, entries, cur, rets, exit, tree, visited, stack, run,
                 result, made, given>>

\* processFile: visited := make(...); marshalAST(file, visited) is called.
Convert ==
  /\ pc = "convert"
  /\ visited' = NewVisited(visited)
  /\ stack' = <<CallFrame(1)>>
  /\ run' = "active" /\ result' = <<>> /\ made' = <<>> /\ given' = <<>>
  /\ pc' = "marshal"
  /\ UNCHANGED <<arg, entries, cur, err, rets, exit, disk, tree>>

\* processFile: jsonEncoder.Encode(astNode) writes the document; when the
\* write fails the error is returned and the file keeps no document.
EncodeOut ==
  /\ pc = "marshal" /\ run = "returned"
  /\ IF entries[cur].fault = "write"
       THEN /\ err' = "encode" /\ UNCHANGED disk
       ELSE /\ err' = "nil"
            /\ disk' = [disk EXCEPT ![cur] = Cell("written", Encode(result))]
  /\ pc' = "fileret" /\ run' = "idle"
  /\ UNCHANGED <<arg, entries, cur, rets, exit, tree, visited, stack, result,
                 made, given>>

\* A panic nobody recovers ends the process with exit code 2.
Crash ==
  /\ pc = "marshal" /\ run \in {"panic", "overflow"}
  /\ pc' = "exit" /\ exit' = 2
  /\ UNCHANGED <<arg, entries, cur, err, rets, disk, tree, visited, stack, run,
                 result, made, given>>

\* The callback returns: filepath.Walk stops at the first non-nil result,
\* processFolder wraps it and main exits with 1; on nil the walk goes on.
WalkFnReturn ==
  /\ pc = "fileret" /\ arg = "dir"
  /\ rets' = Append(rets, err)
  /\ IF CallbackResult(err) # "nil"
       THEN pc' = "exit" /\ exit' = 1
       ELSE pc' = "walk" /\ UNCHANGED exit
  /\ UNCHANGED <<arg, entries, cur, err, disk, tree, visited, stack, run,
                 result, made, given>>

\* filepath.Walk has no entry left: processFolder returns nil, main ends.
WalkDone ==
  /\ pc = "walk" /\ cur = Len(entries)
  /\ pc' = "exit" /\ exit' = 0
  /\ UNCHANGED <<arg, entries, cur, err, rets, disk, tree, visited, stack, run,
                 result, made, given>>

\* main, single file: exit 1 on processFile's error, else fall off main.
MainFileReturn ==
  /\ pc = "fileret" /\ arg = "file"
  /\ pc' = "exit"
  /\ exit' = IF err # "nil" THEN 1 ELSE 0
  /\ UNCHANGED <<arg, entries, cur, err, rets, disk, tree, visited, stack, run,
                 result, made, given>>

DirListings ==
  UNION {[1..n -> Catalogue] : n \in 0..MaxUnits}

Init ==
  /\ arg \in {"noarg", "missing", "file", "dir"}
  /\ entries \in DirListings
  /\ arg = "file" => Len(entries) = 1 /\ entries[1].kind = "go"
  /\ arg \in {"noarg", "missing"} => entries = <<>>
  /\ pc = "main" /\ cur = 0 /\ err = "nil" /\ rets = <<>> /\ exit = -1
  /\ disk = [u \in 1..Len(entries) |-> Cell(entries[u].had, <<>>)]
  /\ tree = <<>> /\ visited = {} /\ stack = <<>> /\ run = "idle"
  /\ result = <<>> /\ made = <<>> /\ given = <<>>

Next ==
  \/ MainBadArgs
  \/ MainDispatch
  \/ WalkFn
  \/ Parse
  \/ Create
  \/ Convert
  \/ MarshalStep
  \/ EncodeOut
  \/ Crash
  \/ WalkFnReturn
  \/ WalkDone
  \/ MainFileReturn

Spec == Init /\ [][Next]_vars

----------------------------------------------------------------------------
(* A direct call marshalAST(root, map[ast.Node]bool{}) on a syntax graph   *)
(* built by the caller: nodes may be shared and may lie on cycles.  The    *)
(* graphs are made of expression kinds whose fields hold any expression;   *)
(* the root may also be an *ast.Package, which no field can hold.          *)

ExprNodes(N) ==
  {Nd("Ident", "x", NoFields)}
    \cup {Nd("BinaryExpr", "", [X |-> <<a>>, Y |-> <<b>>]) : a, b \in 1..N}
    \cup {Nd("ArrayType", "", [Elt |-> <<e>>]) : e \in 1..N}
    \cup {Nd("ArrayType", "", [Len |-> <<l>>, Elt |-> <<e>>]) : l, e \in 1..N}

Succ(t, n) == {WalkChildren(t, n)[i] : i \in 1..Len(WalkChildren(t, n))}

RECURSIVE ReachFrom(_, _)
ReachFrom(t, S) ==
  LET S2 == S \cup UNION {Succ(t, n) : n \in S}
  IN IF S2 = S THEN S ELSE ReachFrom(t, S2)

\* The identities a call on the root (node 1) can meet.
Reachable(t) == ReachFrom(t, {1})

\* Graphs over MaxNodes identities; a node the root does not reach plays no
\* part and is fixed to an Ident.
Graphs ==
  {t \in [1..MaxNodes -> ExprNodes(MaxNodes) \cup {Nd("Package", "", NoFields)}] :
     /\ \A n \in 2..MaxNodes : t[n].kind # "Package"
     /\ \A n \in (1..MaxNodes) \ Reachable(t) : t[n].kind = "Ident"}

InitM ==
  /\ arg = "call" /\ entries = <<>> /\ pc = "call" /\ cur = 1
  /\ err = "nil" /\ rets = <<>> /\ exit = -1 /\ disk = <<>>
  /\ tree \in Graphs
  /\ visited = NewVisited({})
  /\ stack = <<CallFrame(1)>>
  /\ run = "active" /\ result = <<>> /\ made = <<>> /\ given = <<>>

NextM ==
  \/ MarshalStep
  \/ StackOverflow

SpecM == InitM /\ [][NextM]_vars

----------------------------------------------------------------------------
(* Properties.                                                             *)

NoDup(s) == \A i, j \in 1..Len(s) : i # j => s[i] # s[j]

\* A marshalAST call is at its return statement.
AtReturn == Running /\ Top.f = "marshalAST" /\ Top.phase = "inspect"

\* The root call is about to run its first line.
AtRootCall ==
  run = "active" /\ Len(stack) = 1 /\ stack[1].f = "marshalAST"
  /\ stack[1].phase = "entry"

\* Some node the root reaches lies on a cycle.
Cyclic(t) == \E n \in Reachable(t) : n \in ReachFrom(t, Succ(t, n))

\* The number of references to node n held by the nodes the root reaches.
InDegree(t, n) ==
  LET refs == {<<m, i>> \in Reachable(t) \X (1..Len(t)) :
                 i <= Len(WalkChildren(t, m)) /\ WalkChildren(t, m)[i] = n}
  IN Cardinality(refs)

\* The input is tree-shaped: no node is referenced twice, none is on a cycle.
IsTree(t) ==
  /\ t # <<>>
  /\ ~Cyclic(t)
  /\ \A n \in Reachable(t) : InDegree(t, n) <= 1

TypesOf(nodes) == [i \in 1..Len(nodes) |-> nodes[i].Type]

\* The stack limit is met only by recursion that has no end: a cycle.
OverflowOnlyOnCycle == run = "overflow" => Cyclic(tree)

\* C1: within one run every identity yields at most one ASTNode (a later
\* encounter of it allocates nothing), and the tree the root call returns
\* has at most as many nodes as the input has identities.
C1_OneNodePerIdentity ==
  /\ NoDup(made)
  /\ (run = "returned" /\ result # <<>>) =>
        TreeSize(result[1]) <= Cardinality(Reachable(tree))

\* C1 witness: a run has returned on an input whose root holds the same node
\* in two fields, and the output holds that node once.
C1_SharedConvertedOnce ==
  /\ run = "returned" /\ result # <<>>
  /\ tree[1].kind = "BinaryExpr"
  /\ FieldOf(tree, 1, "X") = <<2>> /\ FieldOf(tree, 1, "Y") = <<2>>
  /\ made = <<Ptr(cur, 1), Ptr(cur, 2)>>
  /\ TreeSize(result[1]) = 2

\* C2: a run on any finite graph, cyclic or with shared nodes, ends with the
\* root call returning (a panic on a kind outside the schema aside): it never
\* ends in recursion the stack cannot hold.
C2_RootCallReturns == run # "active" => run \in {"returned", "panic"}

IsMethodWithReturn(t, n) ==
  /\ t[n].kind = "FuncDecl"
  /\ Len(FieldOf(t, n, "Recv")) = 1
  /\ Len(FieldOf(t, n, "Type")) = 1
  /\ Len(FieldOf(t, n, "Body")) = 1
  /\ LET stmts == FieldOf(t, FieldOf(t, n, "Body")[1], "List")
     IN Len(stmts) = 1 /\ t[stmts[1]].kind = "ReturnStmt"

\* C4: the ASTNode returned for a function declaration with a receiver, a
\* signature and a body with one return statement has the function's
\* identifier as name and exactly three children: receiver, signature, body.
C4_FuncDeclThreeChildren ==
  (AtReturn /\ IsMethodWithReturn(tree, Top.node)) =>
     /\ Top.astNode.Name = tree[FieldOf(tree, Top.node, "Name")[1]].text
     /\ TypesOf(Top.astNode.Children) =
          << <<"*ast.", "FieldList">>, <<"*ast.", "FuncType">>,
             <<"*ast.", "BlockStmt">> >>

\* The conversion that keeps exactly the kind-specific children, in order.
RECURSIVE Iso(_, _, _)
Iso(t, u, n) ==
  LET own == Dispatch(t, n, NewASTNode(Ptr(u, n), t[n].kind))
      kids == ExtractChildren(t, n)
  IN [own EXCEPT !.Children = [i \in 1..Len(kids) |-> Iso(t, u, kids[i])]]

\* C5: for a tree-shaped input the output is isomorphic to the input
\* restricted to the kind-specific children: every output node carries the
\* conversions of its kind's fields, in the kind's order, and nothing else.
C5_IsomorphicOnTrees ==
  (run = "returned" /\ result # <<>> /\ IsTree(tree)) =>
     result[1] = Iso(tree, cur, 1)

\* The unit is a file whose declarations hold one import group of 3 specs.
HasImportGroupOf3(t) ==
  /\ t # <<>> /\ t[1].kind = "File"
  /\ LET decls == FieldOf(t, 1, "Decls")
         groups == {i \in 1..Len(decls) : t[decls[i]].kind = "GenDecl"}
     IN /\ Cardinality(groups) = 1
        /\ \A i \in groups :
             LET specs == FieldOf(t, decls[i], "Specs")
             IN Len(specs) = 3 /\ \A j \in 1..3 : t[specs[j]].kind = "ImportSpec"

\* C6: for a unit with an import group of 3 specs, the root ASTNode has
\* exactly one import-group child, and that child has exactly 3 children,
\* each an import spec.
C6_ImportGroupOf3 ==
  (pc = "marshal" /\ run = "returned" /\ HasImportGroupOf3(tree)) =>
     LET kids == result[1].Children
         groups == {i \in 1..Len(kids) : kids[i].Type = <<"*ast.", "GenDecl">>}
     IN /\ Cardinality(groups) = 1
        /\ \A i \in groups :
             /\ Len(kids[i].Children) = 3
             /\ \A j \in 1..Len(kids[i].Children) :
                  kids[i].Children[j].Type = <<"*ast.", "ImportSpec">>

\* C6 witness: the conversion of the file with the 3-spec import group has
\* returned its root node.
C6_ImportsConverted ==
  /\ pc = "marshal" /\ run = "returned" /\ result # <<>>
  /\ HasImportGroupOf3(tree)
  /\ Len(result[1].Children) = 2

\* C7: in a directory run the first failing unit ends the walk: it is the
\* last one processed, no later entry's output is touched, and the run ends
\* with the failure (exit code 1).
C7_FirstFailureAborts ==
  \A i \in 1..Len(rets) :
    rets[i] # "nil" =>
      /\ i = Len(rets) /\ cur = i
      /\ pc = "exit" /\ exit = 1
      /\ \A u \in Units : u > i => disk[u] = Cell(entries[u].had, <<>>)

\* C7 witness: processFile failed on the first of two source files and the
\* run has ended.
C7_FailedBeforeLast ==
  /\ arg = "dir" /\ Len(entries) = 2
  /\ entries[1].kind = "go" /\ entries[2].kind = "go"
  /\ rets = <<"encode">> /\ pc = "exit"

\* C8: two conversions of the same input produce the same document.
C8_Deterministic ==
  \A a, b \in Units :
    (entries[a].src = entries[b].src
       /\ disk[a].st = "written" /\ disk[b].st = "written") =>
      disk[a].doc = disk[b].doc

\* C8 witness: two files with the same content have both been converted and
\* written.
C8_SameInputTwice ==
  /\ Len(entries) = 2 /\ entries[1].src = entries[2].src
  /\ disk[1].st = "written" /\ disk[2].st = "written"
  /\ Len(disk[2].doc) > 1

\* C9: every unit's root call starts with an empty guard, and the guard
\* never holds an identity of another unit's tree.
C9_FreshGuardPerUnit ==
  pc = "marshal" =>
    /\ AtRootCall => visited = {}
    /\ \A p \in visited : p[1] = cur

\* C9 witness: the second unit's root call starts after the first unit was
\* converted and written.
C9_SecondUnitStarts ==
  /\ pc = "marshal" /\ cur = 2 /\ AtRootCall
  /\ disk[1].st = "written"

\* C10: the identity is recorded before any recursion into the node's
\* children: every node whose call is past its first lines (so whenever a
\* child of it is being converted or walked) is in the guard set, and no
\* identity is returned as a node twice in a run.
C10_ClaimedBeforeChildren ==
  /\ \A i \in 1..Len(stack) :
       (stack[i].f = "marshalAST" /\ stack[i].phase # "entry") =>
          IsVisited(visited, Ptr(cur, stack[i].node))
  /\ NoDup(given)
  /\ \A i \in 1..Len(given) : IsVisited(visited, given[i])

\* C10 witness: while node 1's children are converted, a call on node 1
\* itself (the node lies on a cycle) is about to find it in the guard.
C10_RevisitInsideOwnCall ==
  /\ run = "active" /\ Len(stack) = 2
  /\ stack[1].phase = "switch" /\ stack[1].node = 1
  /\ Top.f = "marshalAST" /\ Top.phase = "entry" /\ Top.node = 1
  /\ IsVisited(visited, Ptr(cur, 1))

\* C11: when a unit does not parse, processFile returns the parse error
\* before any other step: the unit's output path is never created or
\* truncated (a document already there stays as it was) and the unit is
\* never converted or encoded.
C11_ParseFailureFirst ==
  \A u \in Units :
    (entries[u].kind = "go" /\ ~entries[u].src.parses) =>
      /\ disk[u] = Cell(entries[u].had, <<>>)
      /\ cur = u =>
           /\ pc \in {"parse", "fileret", "exit"}
           /\ pc \in {"fileret", "exit"} => err = "parse"

\* C11 witness: in a directory run, after a first unit was written, the
\* second unit failed to parse; processFile is returning the error and the
\* document that existed at its output path is still there.
C11_ParseErrorReturned ==
  /\ cur = 2 /\ pc = "fileret" /\ err = "parse"
  /\ ~entries[2].src.parses
  /\ disk[1].st = "written"
  /\ disk[2].st = "old"

====
